---- MODULE Spec2Model ----
(***************************************************************************)
(* serial-terminal-rs: the line codecs of src/main.rs (SerialReadCodec,    *)
(* SerialWriteCodec, Eol) and the two forwarding pipelines main() builds   *)
(* from them (FramedRead / FramedWrite / forward / try_join).              *)
(*                                                                         *)
(* Bytes are integers 0..255, byte buffers and Strings are sequences of    *)
(* bytes (a String is a byte sequence that is valid UTF-8).                *)
(***************************************************************************)
EXTENDS Integers, Sequences, FiniteSets, TLC

(***************************************************************************)
(* Bounds of the model.                                                    *)
(***************************************************************************)
\* longest accumulator content handed to the codec harness
MaxAcc == 4
\* longest Line handed to the encoder in the codec harness
MaxLine == 3
\* longest byte stream the device delivers in a session
MaxDev == 3
\* longest byte stream either source delivers in the end-of-stream sessions
MaxEof == 2
\* most ports an enumeration returns
MaxPorts == 2
\* longest byte stream either source delivers in the progress sessions
MaxLive == 2
\* longest byte stream the console delivers in a session
MaxCon == 2

(***************************************************************************)
(* Byte values named by the source.                                        *)
(***************************************************************************)
\* b'\n', the boundary byte decode looks for
LF == 10
\* b'\r'
CR == 13

\* bytes the codec harness draws from: TAB LF CR SPACE 'a', and 0xC2 0x85
\* (together U+0085 NEXT LINE, a white-space character; apart invalid UTF-8)
CodecBytes == {9, 10, 13, 32, 97, 194, 133}
\* the bytes fed to the decoder piece by piece
FeedBytes == {10, 97}
\* bytes the device sends in the pipeline model: LF 'a' and 0xFF (never
\* valid); what trim_end does to CR and other white space is the harness's
DevBytes == {10, 97, 255}
\* bytes the console sends in the pipeline model
ConBytes == {10, 97}

SeqsUpTo(S, n) == UNION {[1..k -> S] : k \in 0..n}

(***************************************************************************)
(* str::from_utf8: whether a byte sequence is well-formed UTF-8.           *)
(***************************************************************************)
Cont(b) == b \in 128..191

RECURSIVE from_utf8(_)
from_utf8(s) ==
    IF s = <<>> THEN TRUE
    ELSE LET b == s[1]
             n == Len(s)
         IN  IF b < 128 THEN from_utf8(Tail(s))
             ELSE IF b \in 194..223
               THEN n >= 2 /\ Cont(s[2]) /\ from_utf8(SubSeq(s, 3, n))
             ELSE IF b = 224
               THEN n >= 3 /\ s[2] \in 160..191 /\ Cont(s[3])
                    /\ from_utf8(SubSeq(s, 4, n))
             ELSE IF b \in (225..236) \cup {238, 239}
               THEN n >= 3 /\ Cont(s[2]) /\ Cont(s[3])
                    /\ from_utf8(SubSeq(s, 4, n))
             ELSE IF b = 237
               THEN n >= 3 /\ s[2] \in 128..159 /\ Cont(s[3])
                    /\ from_utf8(SubSeq(s, 4, n))
             ELSE IF b = 240
               THEN n >= 4 /\ s[2] \in 144..191 /\ Cont(s[3]) /\ Cont(s[4])
                    /\ from_utf8(SubSeq(s, 5, n))
             ELSE IF b \in 241..243
               THEN n >= 4 /\ Cont(s[2]) /\ Cont(s[3]) /\ Cont(s[4])
                    /\ from_utf8(SubSeq(s, 5, n))
             ELSE IF b = 244
               THEN n >= 4 /\ s[2] \in 128..143 /\ Cont(s[3]) /\ Cont(s[4])
                    /\ from_utf8(SubSeq(s, 5, n))
             ELSE FALSE

(***************************************************************************)
(* str::trim_end: removes every trailing character that has the Unicode    *)
(* White_Space property.  WhiteTail is the encoded length of a trailing    *)
(* white-space character of a valid UTF-8 string, 0 when there is none.    *)
(***************************************************************************)
WhiteTail(s) ==
    LET n == Len(s)
    IN  IF n >= 1 /\ s[n] \in {9, 10, 11, 12, 13, 32} THEN 1
        ELSE IF n >= 2 /\ s[n-1] = 194 /\ s[n] \in {133, 160} THEN 2
        ELSE IF n >= 3
                /\ \/ s[n-2] = 225 /\ s[n-1] = 154 /\ s[n] = 128
                   \/ s[n-2] = 226 /\ s[n-1] = 128
                      /\ s[n] \in (128..138) \cup {168, 169, 175}
                   \/ s[n-2] = 226 /\ s[n-1] = 129 /\ s[n] = 159
                   \/ s[n-2] = 227 /\ s[n-1] = 128 /\ s[n] = 128
          THEN 3
        ELSE 0

\* faulty variant: only the last white-space character is removed
trim_end_once(s) == SubSeq(s, 1, Len(s) - WhiteTail(s))

RECURSIVE trim_end(_)
trim_end(s) ==
    LET k == WhiteTail(s)
    IN  IF k = 0 THEN s ELSE trim_end(SubSeq(s, 1, Len(s) - k))

(***************************************************************************)
(* SerialReadCodec::decode.  position is the 1-based index of the first    *)
(* boundary byte (0: none), so the source's n is position - 1 and          *)
(* split_to(n + 1) takes the first `position` bytes.                       *)
(* The result is [ret, line, src]: ret is "Some" (Ok(Some(line))), "None"  *)
(* (Ok(None)) or "Err" (Err(Io "Invalid String")); src is the accumulator  *)
(* the call leaves behind.                                                 *)
(***************************************************************************)
position(src) ==
    IF \E i \in 1..Len(src) : src[i] = LF
      THEN CHOOSE i \in 1..Len(src) :
               src[i] = LF /\ \A j \in 1..(i - 1) : src[j] # LF
      ELSE 0

\* faulty variant: a buffer without a boundary byte is handed out as a line
decode_flushes_partial(src) ==
    LET p == position(src)
    IN  IF p # 0
          THEN LET line == SubSeq(src, 1, p)
                   rest == SubSeq(src, p + 1, Len(src))
               IN  IF from_utf8(line)
                     THEN [ret |-> "Some", line |-> trim_end(line), src |-> rest]
                     ELSE [ret |-> "Err", line |-> <<>>, src |-> rest]
        ELSE IF src # <<>> /\ from_utf8(src)
          THEN [ret |-> "Some", line |-> trim_end(src), src |-> <<>>]
        ELSE [ret |-> "None", line |-> <<>>, src |-> src]

\* faulty variant: the text is validated before the boundary byte is looked for
decode_validates_first(src) ==
    LET p == position(src)
    IN  IF ~from_utf8(src)
          THEN [ret |-> "Err", line |-> <<>>, src |-> <<>>]
        ELSE IF p # 0
          THEN [ret |-> "Some", line |-> trim_end(SubSeq(src, 1, p)),
                src |-> SubSeq(src, p + 1, Len(src))]
        ELSE [ret |-> "None", line |-> <<>>, src |-> src]

\* faulty variant: an empty line is skipped instead of returned
decode_skips_empty(src) ==
    LET p == position(src)
    IN  IF p # 0
          THEN LET line == SubSeq(src, 1, p)
                   rest == SubSeq(src, p + 1, Len(src))
               IN  IF ~from_utf8(line)
                     THEN [ret |-> "Err", line |-> <<>>, src |-> rest]
                   ELSE IF trim_end(line) = <<>>
                     THEN [ret |-> "None", line |-> <<>>, src |-> rest]
                   ELSE [ret |-> "Some", line |-> trim_end(line), src |-> rest]
        ELSE [ret |-> "None", line |-> <<>>, src |-> src]

\* faulty variant: an invalid chunk is handed out as a line (lossy conversion)
decode_lossy(src) ==
    LET p == position(src)
    IN  IF p # 0
          THEN [ret |-> "Some", line |-> trim_end(SubSeq(src, 1, p)),
                src |-> SubSeq(src, p + 1, Len(src))]
        ELSE [ret |-> "None", line |-> <<>>, src |-> src]

\* faulty variant: the scan resumes behind the bytes a failed attempt has seen
scan_start_resumes(done) == done

\* src.as_ref().iter().position(..): the offset the scan for the boundary
\* byte starts at, when an attempt that found none has examined the first
\* `done` bytes of the accumulator.  The codec keeps no such count.
scan_start(done) == 0

\* faulty variant: extracting a line empties the accumulator
decode_clears(src) ==
    LET p == position(src)
    IN  IF p # 0
          THEN LET line == SubSeq(src, 1, p)
               IN  IF from_utf8(line)
                     THEN [ret |-> "Some", line |-> trim_end(line), src |-> <<>>]
                     ELSE [ret |-> "Err", line |-> <<>>, src |-> <<>>]
        ELSE [ret |-> "None", line |-> <<>>, src |-> src]

\* faulty variant: a rejected chunk stays in the accumulator
decode_err_keeps(src) ==
    LET p == position(src)
    IN  IF p # 0
          THEN LET line == SubSeq(src, 1, p)
                   rest == SubSeq(src, p + 1, Len(src))
               IN  IF from_utf8(line)
                     THEN [ret |-> "Some", line |-> trim_end(line), src |-> rest]
                     ELSE [ret |-> "Err", line |-> <<>>, src |-> src]
        ELSE [ret |-> "None", line |-> <<>>, src |-> src]

decode(src) ==
    LET p == position(src)
    IN  IF p # 0
          THEN LET line == SubSeq(src, 1, p)
                   rest == SubSeq(src, p + 1, Len(src))
               IN  IF from_utf8(line)
                     THEN [ret |-> "Some", line |-> trim_end(line), src |-> rest]
                     ELSE [ret |-> "Err", line |-> <<>>, src |-> rest]
        ELSE [ret |-> "None", line |-> <<>>, src |-> src]

(***************************************************************************)
(* Eol::bytes and SerialWriteCodec::encode.  encode returns [ret, buf]:    *)
(* ret is always "Ok", buf is the output buffer after the call.            *)
(***************************************************************************)
Eols == {"Cr", "Crlf", "Lf"}

\* faulty variant: the Cr and Lf arms are swapped
bytes_swapped(eol) ==
    CASE eol = "Cr" -> <<LF>>
      [] eol = "Crlf" -> <<CR, LF>>
      [] eol = "Lf" -> <<CR>>

bytes(eol) ==
    CASE eol = "Cr" -> <<CR>>
      [] eol = "Crlf" -> <<CR, LF>>
      [] eol = "Lf" -> <<LF>>

\* faulty variant: the line is put in front of the bytes already buffered
encode_prepends(eol, line, buf) ==
    [ret |-> "Ok", buf |-> line \o bytes(eol) \o buf]

encode(eol, line, buf) ==
    [ret |-> "Ok", buf |-> buf \o line \o bytes(eol)]


(***************************************************************************)
(* The codecs of the console side, tokio_util's LinesCodec, which main()   *)
(* puts on stdin and stdout, and Decoder::decode_eof, which FramedRead     *)
(* calls once the source has reported end-of-stream.  SerialReadCodec      *)
(* does not override decode_eof, so it gets the trait's default: leftover  *)
(* bytes are an error.  LinesCodec hands out leftover bytes as a last      *)
(* line.                                                                   *)
(***************************************************************************)
without_carriage_return(s) ==
    IF s # <<>> /\ s[Len(s)] = CR THEN SubSeq(s, 1, Len(s) - 1) ELSE s

LinesCodec_decode(src) ==
    LET p == position(src)
    IN  IF p # 0
          THEN LET line == without_carriage_return(SubSeq(src, 1, p - 1))
                   rest == SubSeq(src, p + 1, Len(src))
               IN  IF from_utf8(line)
                     THEN [ret |-> "Some", line |-> line, src |-> rest]
                     ELSE [ret |-> "Err", line |-> <<>>, src |-> rest]
        ELSE [ret |-> "None", line |-> <<>>, src |-> src]

LinesCodec_decode_eof(src) ==
    LET r == LinesCodec_decode(src)
    IN  IF r.ret # "None" THEN r
        ELSE IF src = <<>> \/ src = <<CR>> THEN r
        ELSE LET line == without_carriage_return(src)
             IN  IF from_utf8(line)
                   THEN [ret |-> "Some", line |-> line, src |-> <<>>]
                   ELSE [ret |-> "Err", line |-> <<>>, src |-> <<>>]

LinesCodec_encode(line, buf) ==
    [ret |-> "Ok", buf |-> buf \o line \o <<LF>>]

\* faulty variant: at end-of-stream leftover bytes are dropped without an error
decode_eof_drops(src) ==
    LET r == decode(src)
    IN  IF r.ret # "None" THEN r
        ELSE [ret |-> "None", line |-> <<>>, src |-> src]

\* Decoder::decode_eof as SerialReadCodec inherits it; "Eof" stands for
\* Err("bytes remaining on stream")
decode_eof(src) ==
    LET r == decode(src)
    IN  IF r.ret # "None" THEN r
        ELSE IF src = <<>> THEN r
        ELSE [ret |-> "Eof", line |-> <<>>, src |-> src]

(***************************************************************************)
(* State.                                                                  *)
(*                                                                         *)
(* The codec harness (specification SpecCodec) applies decode and encode   *)
(* to inputs drawn in its initial state:                                   *)
(*   hMode   "decode": decode is called on the accumulator hFed until it   *)
(*           returns None; "encode": hLine is encoded under eol into a     *)
(*           buffer holding hBuf0, the buffer is handed to the decoder and *)
(*           decoded until None                                            *)
(*   hPc     "start", "encoded", "decoding", "done"                        *)
(*   hSrc    the decoder's accumulator (src of decode)                     *)
(*   hFed    the bytes the accumulator was given                           *)
(*   hPrev   the accumulator before the latest decode call                 *)
(*   hRet    the latest decode call's result ("Start": none yet)           *)
(*   hLines  the Lines decode returned so far, hCalls the number of calls  *)
(*   hLine, hBuf0, hBuf, hEncRet  encode's line, the buffer before and     *)
(*           after the call, and its result ("Start": not called)          *)
(*   eol     opt.eol, the policy of SerialWriteCodec                       *)
(*                                                                         *)
(* The session (specification Spec), per forwarding loop l: "input" is     *)
(* framed_stdin.forward(sink), "output" is stream.forward(framed_stdout):  *)
(*   stream[l]   the bytes the source delivers before it closes            *)
(*   pos[l]      how many of them have been read                           *)
(*   acc[l]      FramedRead's buffer (the decoder state)                   *)
(*   readable[l], eof[l]  FramedRead's is_readable and eof flags           *)
(*   item[l]     Forward's buffered_item, a queue of decoded Lines         *)
(*   wbuf[l]     FramedWrite's buffer of encoded, unwritten bytes          *)
(*   sink[l]     the bytes written to the sink                             *)
(*   decoded[l]  the Lines the decoder has emitted (history)               *)
(*   status[l]   "Running", "Ok", or the error the loop returned           *)
(*   session     try_join's state and result                               *)
(*   turn        the loop try_join is polling, or polls next               *)
(* main's start-up:                                                        *)
(*   opt         the parsed command line                                   *)
(*   ports       what serialport::available_ports() returns                *)
(*   mPc         main's position                                           *)
(*   exit        the process's exit status, "running" until it has one     *)
(*   printed     the ports printed by --list                               *)
(*   opened      the path handed to Serial::from_path, "none" before       *)
(***************************************************************************)
VARIABLES hMode, hPc, hSrc, hFed, hPrev, hRet, hLines, hCalls,
          hLine, hBuf0, hBuf, hEncRet, hScan, eol,
          stream, pos, acc, readable, eof, item, wbuf, sink, decoded,
          status, session, turn,
          opt, ports, mPc, exit, printed, opened

hvars == <<hMode, hPc, hSrc, hFed, hPrev, hRet, hLines, hCalls,
           hLine, hBuf0, hBuf, hEncRet, hScan>>
pvars == <<stream, pos, acc, readable, eof, item, wbuf, sink, decoded,
           status, session, turn>>
mvars == <<opt, ports, mPc, exit, printed, opened>>
vars == <<hvars, eol, pvars, mvars>>

Loops == {"input", "output"}
Other(l) == IF l = "input" THEN "output" ELSE "input"

HarnessIdle ==
    /\ hMode = "off" /\ hPc = "done"
    /\ hSrc = <<>> /\ hFed = <<>> /\ hPrev = <<>>
    /\ hRet = [ret |-> "Start", line |-> <<>>, src |-> <<>>]
    /\ hLines = <<>> /\ hCalls = 0
    /\ hLine = <<>> /\ hBuf0 = <<>> /\ hBuf = <<>> /\ hEncRet = "Start"
    /\ hScan = [from |-> 1, to |-> 0, seen |-> 0]

\* main is not under study
MainIdle ==
    /\ opt = [list |-> FALSE, tty |-> "none", data_bits |-> 8, stop_bits |-> 1]
    /\ ports = [ret |-> "Ok", list |-> <<>>]
    /\ mPc = "off" /\ exit = "running"
    /\ printed = <<>> /\ opened = "none"

\* main has opened the first port under the default options and awaits
\* try_join
MainForwarding ==
    /\ opt = [list |-> FALSE, tty |-> "none", data_bits |-> 8, stop_bits |-> 1]
    /\ ports = [ret |-> "Ok", list |-> <<"/dev/ttyS0">>]
    /\ mPc = "forwarding" /\ exit = "running"
    /\ printed = <<>> /\ opened = "/dev/ttyS0"

SessionIdle ==
    /\ stream = [l \in Loops |-> <<>>]
    /\ pos = [l \in Loops |-> 0]
    /\ acc = [l \in Loops |-> <<>>]
    /\ readable = [l \in Loops |-> FALSE]
    /\ eof = [l \in Loops |-> FALSE]
    /\ item = [l \in Loops |-> <<>>]
    /\ wbuf = [l \in Loops |-> <<>>]
    /\ sink = [l \in Loops |-> <<>>]
    /\ decoded = [l \in Loops |-> <<>>]
    /\ status = [l \in Loops |-> "Running"]
    /\ session = [state |-> "Running", result |-> "None", from |-> "none"]
    /\ turn = "input"

(***************************************************************************)
(* The codec harness.                                                      *)
(***************************************************************************)
InitCodec ==
    /\ SessionIdle
    /\ MainIdle
    /\ hPrev = <<>>
    /\ hScan = [from |-> 1, to |-> 0, seen |-> 0]
    /\ hRet = [ret |-> "Start", line |-> <<>>, src |-> <<>>]
    /\ hLines = <<>> /\ hCalls = 0
    /\ hBuf = <<>> /\ hEncRet = "Start"
    /\ \/ /\ hMode = "feed" /\ hPc = "done"
          /\ hFed = <<>> /\ hSrc = <<>>
          /\ hLine = <<>> /\ hBuf0 = <<>> /\ eol = "Crlf"
       \/ /\ hMode = "decode" /\ hPc = "start"
          /\ hFed \in SeqsUpTo(CodecBytes, MaxAcc)
          /\ hSrc = hFed
          /\ hLine = <<>> /\ hBuf0 = <<>> /\ eol = "Crlf"
       \/ /\ hMode = "encode" /\ hPc = "start"
          /\ hFed = <<>> /\ hSrc = <<>>
          /\ hLine \in {s \in SeqsUpTo(CodecBytes, MaxLine) : from_utf8(s)}
          /\ hBuf0 \in {<<>>, <<97>>, <<LF>>}
          /\ eol \in Eols

\* SerialWriteCodec(eol).encode(hLine, &mut buf) on a buffer holding hBuf0
HEncode ==
    /\ hMode = "encode" /\ hPc = "start"
    /\ LET r == encode(eol, hLine, hBuf0)
       IN  hBuf' = r.buf /\ hEncRet' = r.ret
    /\ hPc' = "encoded"
    /\ UNCHANGED <<hMode, hSrc, hFed, hPrev, hRet, hLines, hCalls,
                   hLine, hBuf0, hScan, eol, pvars, mvars>>

\* the encoded bytes become the decoder's accumulator
HLoopback ==
    /\ hPc = "encoded"
    /\ hSrc' = hBuf /\ hFed' = hBuf
    /\ hPc' = "decoding"
    /\ UNCHANGED <<hMode, hPrev, hRet, hLines, hCalls,
                   hLine, hBuf0, hBuf, hEncRet, hScan, eol, pvars, mvars>>

\* one call decode(&mut src) on the accumulator src, of which an attempt
\* that found no boundary byte has examined the first `seen` bytes
DecodeCall(src, seen) ==
    /\ LET r == decode(src)
       IN  /\ hRet' = r
           /\ hSrc' = r.src
           /\ hLines' = IF r.ret = "Some" THEN Append(hLines, r.line) ELSE hLines
           /\ hPc' = IF r.ret = "None" THEN "done" ELSE "decoding"
    /\ hPrev' = src
    /\ hCalls' = hCalls + 1
    /\ hScan' = [from |-> scan_start(seen) + 1,
                 to |-> IF position(src) # 0 THEN position(src) ELSE Len(src),
                 seen |-> seen]

\* SerialReadCodec.decode(&mut src); the caller re-invokes it until None
HDecode ==
    /\ \/ hMode = "decode" /\ hPc = "start"
       \/ hPc = "decoding"
    /\ DecodeCall(hSrc, 0)
    /\ UNCHANGED <<hMode, hFed, hLine, hBuf0, hBuf, hEncRet, eol, pvars, mvars>>

\* after decode asked for more, the reader appends newly arrived bytes and
\* calls decode again
HFeed ==
    /\ hMode = "feed" /\ hPc = "done"
    /\ Len(hFed) < MaxAcc
    /\ \E b \in SeqsUpTo(FeedBytes, MaxAcc - Len(hFed)) \ {<<>>} :
          /\ hFed' = hFed \o b
          /\ DecodeCall(hSrc \o b, Len(hSrc))
    /\ UNCHANGED <<hMode, hLine, hBuf0, hBuf, hEncRet, eol, pvars, mvars>>

NextCodec == HEncode \/ HLoopback \/ HDecode \/ HFeed

SpecCodec == InitCodec /\ [][NextCodec]_vars


(***************************************************************************)
(* The session main() runs:                                                *)
(*   input  = framed_stdin.forward(sink)     console -> device             *)
(*   output = stream.forward(framed_stdout)  device -> console             *)
(*   result = try_join(input, output).await                                *)
(* Each action below is one step of one loop's Forward::poll, in the order *)
(* the futures and tokio_util combinators named on main.rs:227-236 take    *)
(* them.  main() is one task: try_join polls input, then output, and each  *)
(* poll runs until its loop returns Pending or completes (turn).  A step   *)
(* that completes a loop also sets try_join's result: both happen in the   *)
(* same poll.                                                              *)
(***************************************************************************)
\* FramedWrite flushes before accepting an item once its buffer holds this much
BackpressureBoundary == 8192

IsErr(s) == s \notin {"Running", "Ok"}

\* faulty variant: the session ends with the first loop that completes (a select)
try_join_first_done(st) ==
    IF st["input"] # "Running"
      THEN [state |-> "Terminated", result |-> st["input"], from |-> "input"]
    ELSE IF st["output"] # "Running"
      THEN [state |-> "Terminated", result |-> st["output"], from |-> "output"]
    ELSE [state |-> "Running", result |-> "None", from |-> "none"]

\* faulty variant: the session waits for both loops and then reports an error, if any
try_join_waits_for_both(st) ==
    IF st["input"] = "Running" \/ st["output"] = "Running"
      THEN [state |-> "Running", result |-> "None", from |-> "none"]
    ELSE IF IsErr(st["input"])
      THEN [state |-> "Terminated", result |-> st["input"], from |-> "input"]
    ELSE IF IsErr(st["output"])
      THEN [state |-> "Terminated", result |-> st["output"], from |-> "output"]
    ELSE [state |-> "Terminated", result |-> "Ok", from |-> "both"]

\* futures::future::try_join over the two loops' results so far
try_join(st) ==
    IF IsErr(st["input"])
      THEN [state |-> "Terminated", result |-> st["input"], from |-> "input"]
    ELSE IF IsErr(st["output"])
      THEN [state |-> "Terminated", result |-> st["output"], from |-> "output"]
    ELSE IF st["input"] = "Ok" /\ st["output"] = "Ok"
      THEN [state |-> "Terminated", result |-> "Ok", from |-> "both"]
    ELSE [state |-> "Running", result |-> "None", from |-> "none"]

\* the codecs main() gives each loop's FramedRead and FramedWrite
Decode(l, src) ==
    IF l = "output" THEN decode(src) ELSE LinesCodec_decode(src)
DecodeEof(l, src) ==
    IF l = "output" THEN decode_eof(src) ELSE LinesCodec_decode_eof(src)
Encode(l, line, buf) ==
    IF l = "input" THEN encode(eol, line, buf) ELSE LinesCodec_encode(line, buf)
\* the FramedRead call a poll makes: decode_eof once eof is set
Frame(l) == IF eof[l] THEN DecodeEof(l, acc[l]) ELSE Decode(l, acc[l])
ErrorOf(l, r) ==
    IF r.ret = "Eof" THEN "BytesRemaining"
    ELSE IF l = "output" THEN "InvalidString" ELSE "InvalidUtf8"

\* faulty variant: Forward polls its stream although an item is still buffered
may_poll_always(it) == TRUE

\* Forward polls its stream only when buffered_item has been taken
may_poll(it) == it = <<>>

Live(l) == session.state = "Running" /\ status[l] = "Running" /\ turn = l

\* the loop that try_join polls after l's poll has returned
NextTurn(l, st) == IF st[Other(l)] = "Running" THEN Other(l) ELSE l

Complete(l, r) ==
    /\ status' = [status EXCEPT ![l] = r]
    /\ session' = try_join(status')
    /\ turn' = NextTurn(l, status')

\* the session starts with --eol at its default (main.rs:28) and nothing read
Init ==
    /\ HarnessIdle
    /\ MainForwarding
    /\ eol = "Crlf"
    /\ stream \in {f \in [Loops -> SeqsUpTo(DevBytes \cup ConBytes, MaxDev)] :
                     /\ f["input"] \in SeqsUpTo(ConBytes, MaxCon)
                     /\ f["output"] \in SeqsUpTo(DevBytes, MaxDev)}
    /\ pos = [l \in Loops |-> 0]
    /\ acc = [l \in Loops |-> <<>>]
    /\ readable = [l \in Loops |-> FALSE]
    /\ eof = [l \in Loops |-> FALSE]
    /\ item = [l \in Loops |-> <<>>]
    /\ wbuf = [l \in Loops |-> <<>>]
    /\ sink = [l \in Loops |-> <<>>]
    /\ decoded = [l \in Loops |-> <<>>]
    /\ status = [l \in Loops |-> "Running"]
    /\ session = [state |-> "Running", result |-> "None", from |-> "none"]
    /\ turn = "input"

\* Forward: buffered_item is Some: poll_ready (flushing first when the
\* write buffer is full), then start_send encodes the item into the buffer
Send(l) ==
    /\ Live(l) /\ item[l] # <<>>
    /\ LET full == Len(wbuf[l]) >= BackpressureBoundary
           r == Encode(l, Head(item[l]), IF full THEN <<>> ELSE wbuf[l])
       IN  /\ wbuf' = [wbuf EXCEPT ![l] = r.buf]
           /\ sink' = [sink EXCEPT ![l] = IF full THEN @ \o wbuf[l] ELSE @]
    /\ item' = [item EXCEPT ![l] = Tail(@)]
    /\ UNCHANGED <<hvars, mvars, eol, stream, pos, acc, readable, eof, decoded,
                   status, session, turn>>

\* FramedRead::poll_next, is_readable: the decoder returns a frame, which
\* Forward keeps as buffered_item
FrameDecoded(l) ==
    /\ Live(l) /\ may_poll(item[l]) /\ readable[l]
    /\ Frame(l).ret = "Some"
    /\ acc' = [acc EXCEPT ![l] = Frame(l).src]
    /\ item' = [item EXCEPT ![l] = Append(@, Frame(l).line)]
    /\ decoded' = [decoded EXCEPT ![l] = Append(@, Frame(l).line)]
    /\ UNCHANGED <<hvars, mvars, eol, stream, pos, readable, eof, wbuf, sink,
                   status, session, turn>>

\* FramedRead::poll_next: decode returns None before end-of-stream:
\* is_readable is cleared and the source is read next
NeedMoreData(l) ==
    /\ Live(l) /\ may_poll(item[l]) /\ readable[l] /\ ~eof[l]
    /\ Frame(l).ret = "None"
    /\ acc' = [acc EXCEPT ![l] = Frame(l).src]
    /\ readable' = [readable EXCEPT ![l] = FALSE]
    /\ UNCHANGED <<hvars, mvars, eol, stream, pos, eof, item, wbuf, sink, decoded,
                   status, session, turn>>

\* the decoder returns an error: poll_next yields it, Forward returns it
DecodeFailed(l) ==
    /\ Live(l) /\ may_poll(item[l]) /\ readable[l]
    /\ Frame(l).ret \in {"Err", "Eof"}
    /\ acc' = [acc EXCEPT ![l] = Frame(l).src]
    /\ Complete(l, ErrorOf(l, Frame(l)))
    /\ UNCHANGED <<hvars, mvars, eol, stream, pos, readable, eof, item, wbuf, sink,
                   decoded>>

\* decode_eof returns None: the stream has ended; Forward closes the sink
\* (which writes out the buffer) and returns Ok
StreamEnded(l) ==
    /\ Live(l) /\ may_poll(item[l]) /\ readable[l] /\ eof[l]
    /\ Frame(l).ret = "None"
    /\ sink' = [sink EXCEPT ![l] = @ \o wbuf[l]]
    /\ wbuf' = [wbuf EXCEPT ![l] = <<>>]
    /\ Complete(l, "Ok")
    /\ UNCHANGED <<hvars, mvars, eol, stream, pos, acc, readable, eof, item, decoded>>

\* the stream has ended but the sink takes only k bytes of the close's
\* flush: Forward returns Pending and closes again in its next poll
ClosePending(l) ==
    /\ Live(l) /\ may_poll(item[l]) /\ readable[l] /\ eof[l]
    /\ Frame(l).ret = "None"
    /\ \E k \in 0..(Len(wbuf[l]) - 1) :
          /\ sink' = [sink EXCEPT ![l] = @ \o SubSeq(wbuf[l], 1, k)]
          /\ wbuf' = [wbuf EXCEPT ![l] = SubSeq(@, k + 1, Len(@))]
    /\ turn' = NextTurn(l, status)
    /\ UNCHANGED <<hvars, mvars, eol, stream, pos, acc, readable, eof, item, decoded,
                   status, session>>

\* poll_read returns n > 0 bytes, appended to FramedRead's buffer
ReadReady(l) ==
    /\ Live(l) /\ may_poll(item[l]) /\ ~readable[l]
    /\ \E n \in 1..(Len(stream[l]) - pos[l]) :
          /\ acc' = [acc EXCEPT ![l] = @ \o SubSeq(stream[l], pos[l] + 1, pos[l] + n)]
          /\ pos' = [pos EXCEPT ![l] = @ + n]
    /\ readable' = [readable EXCEPT ![l] = TRUE]
    /\ UNCHANGED <<hvars, mvars, eol, stream, eof, item, wbuf, sink, decoded,
                   status, session, turn>>

\* poll_read returns 0 bytes: the source has closed
ReadEof(l) ==
    /\ Live(l) /\ may_poll(item[l]) /\ ~readable[l]
    /\ pos[l] = Len(stream[l])
    /\ eof' = [eof EXCEPT ![l] = TRUE]
    /\ readable' = [readable EXCEPT ![l] = TRUE]
    /\ UNCHANGED <<hvars, mvars, eol, stream, pos, acc, item, wbuf, sink, decoded,
                   status, session, turn>>

\* faulty variant: Forward returns Pending without flushing its sink
ReadPending_noflush(l) ==
    /\ Live(l) /\ may_poll(item[l]) /\ ~readable[l]
    /\ turn' = NextTurn(l, status)
    /\ UNCHANGED <<hvars, mvars, eol, stream, pos, acc, readable, eof, item, decoded,
                   status, session, wbuf, sink>>

\* poll_read is Pending: Forward flushes the sink, which takes k bytes
\* (all of them, or fewer when the sink itself is not ready), and returns
\* Pending
ReadPending(l) ==
    /\ Live(l) /\ may_poll(item[l]) /\ ~readable[l]
    /\ \E k \in 0..Len(wbuf[l]) :
          /\ sink' = [sink EXCEPT ![l] = @ \o SubSeq(wbuf[l], 1, k)]
          /\ wbuf' = [wbuf EXCEPT ![l] = SubSeq(@, k + 1, Len(@))]
    /\ turn' = NextTurn(l, status)
    /\ UNCHANGED <<hvars, mvars, eol, stream, pos, acc, readable, eof, item, decoded,
                   status, session>>

\* poll_read returns an error (the device is gone, the read timed out)
ReadFailed(l) ==
    /\ Live(l) /\ may_poll(item[l]) /\ ~readable[l]
    /\ Complete(l, "ReadError")
    /\ UNCHANGED <<hvars, mvars, eol, stream, pos, acc, readable, eof, item, wbuf,
                   sink, decoded>>

\* a write of the flush or of the close fails after k bytes went out
WriteFailed(l) ==
    /\ Live(l) /\ may_poll(item[l])
    /\ \/ ~readable[l]
       \/ readable[l] /\ eof[l] /\ Frame(l).ret = "None"
    /\ \E k \in 0..Len(wbuf[l]) :
          /\ sink' = [sink EXCEPT ![l] = @ \o SubSeq(wbuf[l], 1, k)]
          /\ wbuf' = [wbuf EXCEPT ![l] = SubSeq(@, k + 1, Len(@))]
    /\ Complete(l, "WriteError")
    /\ UNCHANGED <<hvars, mvars, eol, stream, pos, acc, readable, eof, item, decoded>>

\* sessions whose sources close on every kind of leftover: the console
\* sends LF CR 'a', the device LF 'a' 0xFF
EofConBytes == {10, 13, 97}
EofDevBytes == {10, 97, 255}

InitEof ==
    /\ HarnessIdle
    /\ MainForwarding
    /\ eol = "Crlf"
    /\ stream \in {f \in [Loops -> SeqsUpTo(EofConBytes \cup EofDevBytes, MaxEof)] :
                     /\ f["input"] \in SeqsUpTo(EofConBytes, MaxEof)
                     /\ f["output"] \in SeqsUpTo(EofDevBytes, MaxEof)}
    /\ pos = [l \in Loops |-> 0]
    /\ acc = [l \in Loops |-> <<>>]
    /\ readable = [l \in Loops |-> FALSE]
    /\ eof = [l \in Loops |-> FALSE]
    /\ item = [l \in Loops |-> <<>>]
    /\ wbuf = [l \in Loops |-> <<>>]
    /\ sink = [l \in Loops |-> <<>>]
    /\ decoded = [l \in Loops |-> <<>>]
    /\ status = [l \in Loops |-> "Running"]
    /\ session = [state |-> "Running", result |-> "None", from |-> "none"]
    /\ turn = "input"

Step(l) ==
    \/ Send(l)
    \/ FrameDecoded(l)
    \/ NeedMoreData(l)
    \/ DecodeFailed(l)
    \/ StreamEnded(l)
    \/ ClosePending(l)
    \/ ReadReady(l)
    \/ ReadEof(l)
    \/ ReadPending(l)
    \/ ReadFailed(l)
    \/ WriteFailed(l)

Next == \E l \in Loops : Step(l)

Spec == Init /\ [][Next]_vars

SpecEof == InitEof /\ [][Next]_vars

(***************************************************************************)
(* Sessions under fair scheduling.  main is one task: whenever it is woken *)
(* the runtime polls try_join, which polls the loop whose turn it is until *)
(* that loop returns (weak fairness of each loop's steps).  A sink that is *)
(* offered bytes again and again takes some of them in the end (strong     *)
(* fairness of a flush that writes).  Nothing obliges a source to deliver. *)
(***************************************************************************)
LiveBytes == {10, 97}

InitLive ==
    /\ HarnessIdle
    /\ MainForwarding
    /\ eol = "Crlf"
    /\ stream \in [Loops -> SeqsUpTo(LiveBytes, MaxLive)]
    /\ pos = [l \in Loops |-> 0]
    /\ acc = [l \in Loops |-> <<>>]
    /\ readable = [l \in Loops |-> FALSE]
    /\ eof = [l \in Loops |-> FALSE]
    /\ item = [l \in Loops |-> <<>>]
    /\ wbuf = [l \in Loops |-> <<>>]
    /\ sink = [l \in Loops |-> <<>>]
    /\ decoded = [l \in Loops |-> <<>>]
    /\ status = [l \in Loops |-> "Running"]
    /\ session = [state |-> "Running", result |-> "None", from |-> "none"]
    /\ turn = "input"

\* a flush or a close of l's sink that writes at least one byte
FlushProgress(l) ==
    /\ ReadPending(l) \/ ClosePending(l) \/ StreamEnded(l)
    /\ Len(sink'[l]) > Len(sink[l])

SpecLive ==
    /\ InitLive /\ [][Next]_vars
    /\ \A l \in Loops : WF_vars(Step(l)) /\ SF_vars(FlushProgress(l))

(***************************************************************************)
(* main's start-up, from the command line to the two pipelines.            *)
(***************************************************************************)
PortNames == {"/dev/ttyS0", "/dev/ttyUSB0"}
\* --tty: absent, a path the enumeration may list, a path it never lists
TtyOpts == {"none", "/dev/ttyUSB0", "/dev/pts/3"}
DataBitsOpts == {8, 9}
StopBitsOpts == {1, 3}

DataBitsExt_try_from(value) == IF value \in {5, 6, 7, 8} THEN "Ok" ELSE "Err"
StopBitsExt_try_from(value) == IF value \in {1, 2} THEN "Ok" ELSE "Err"

\* opt.tty.unwrap_or_else(|| ports.first().unwrap().port_name)
tty_path(o, p) == IF o.tty # "none" THEN o.tty ELSE p[1]

InitMain ==
    /\ HarnessIdle /\ SessionIdle
    /\ eol = "Crlf"
    /\ opt \in [list : BOOLEAN, tty : TtyOpts,
                data_bits : DataBitsOpts, stop_bits : StopBitsOpts]
    /\ ports \in {[ret |-> "Err", list |-> <<>>]}
                 \cup {[ret |-> "Ok", list |-> p] :
                         p \in SeqsUpTo(PortNames, MaxPorts)}
    /\ mPc = "start" /\ exit = "running"
    /\ printed = <<>> /\ opened = "none"

\* a panic or process::exit
Exit(code) == mPc' = "exited" /\ exit' = code

\* serialport::available_ports().unwrap()
AvailablePorts ==
    /\ mPc = "start"
    /\ IF ports.ret = "Err" THEN Exit("panic")
       ELSE mPc' = "ports" /\ exit' = exit
    /\ UNCHANGED <<hvars, eol, pvars, opt, ports, printed, opened>>

\* if ports.is_empty() { eprintln!(..); exit(1) }
NoPorts ==
    /\ mPc = "ports" /\ ports.list = <<>>
    /\ Exit("1")
    /\ UNCHANGED <<hvars, eol, pvars, opt, ports, printed, opened>>

\* if opt.list { print every port; return }
List ==
    /\ mPc = "ports" /\ ports.list # <<>> /\ opt.list
    /\ printed' = ports.list
    /\ Exit("0")
    /\ UNCHANGED <<hvars, eol, pvars, opt, ports, opened>>

\* the SerialPortSettings literal: both try_from(..).unwrap()
Settings ==
    /\ mPc = "ports" /\ ports.list # <<>> /\ ~opt.list
    /\ IF /\ DataBitsExt_try_from(opt.data_bits) = "Ok"
          /\ StopBitsExt_try_from(opt.stop_bits) = "Ok"
         THEN mPc' = "settings" /\ exit' = exit
         ELSE Exit("panic")
    /\ UNCHANGED <<hvars, eol, pvars, opt, ports, printed, opened>>

\* Serial::from_path(tty_path, &settings); on Err exit(1)
FromPath ==
    /\ mPc = "settings"
    /\ opened' = tty_path(opt, ports.list)
    /\ \E ok \in BOOLEAN :
          IF ok THEN mPc' = "opened" /\ exit' = exit ELSE Exit("1")
    /\ UNCHANGED <<hvars, eol, pvars, opt, ports, printed>>

\* serial.set_exclusive(false).expect(..), then the pipelines are built
SetExclusive ==
    /\ mPc = "opened"
    /\ \E ok \in BOOLEAN :
          IF ok THEN mPc' = "forwarding" /\ exit' = exit ELSE Exit("panic")
    /\ UNCHANGED <<hvars, eol, pvars, opt, ports, printed, opened>>

\* try_join has resolved; main prints the result and returns
Return ==
    /\ mPc = "forwarding"
    /\ Exit("0")
    /\ UNCHANGED <<hvars, eol, pvars, opt, ports, printed, opened>>

NextMain ==
    \/ AvailablePorts
    \/ NoPorts
    \/ List
    \/ Settings
    \/ FromPath
    \/ SetExclusive
    \/ Return

SpecMain == InitMain /\ [][NextMain]_vars

(***************************************************************************)
(* Vocabulary of the properties: boundary bytes and the chunks between     *)
(* them, counted on the bytes a decoder was given.                         *)
(***************************************************************************)
HasLF(s) == \E i \in 1..Len(s) : s[i] = LF
LFs(s) == {i \in 1..Len(s) : s[i] = LF}
CountLF(s) == Cardinality(LFs(s))
\* index of the k-th boundary byte of s (0 for k = 0)
NthLF(s, k) ==
    IF k = 0 THEN 0
    ELSE CHOOSE i \in LFs(s) : Cardinality({j \in LFs(s) : j <= i}) = k
\* the bytes between the (k-1)-th and the k-th boundary byte
Chunk(s, k) == SubSeq(s, NthLF(s, k - 1) + 1, NthLF(s, k) - 1)
\* the bytes after the k-th boundary byte
AfterLF(s, k) == SubSeq(s, NthLF(s, k) + 1, Len(s))
IsPrefix(a, b) == Len(a) <= Len(b) /\ a = SubSeq(b, 1, Len(a))
\* the terminator each policy stands for
Terminator(e) ==
    IF e = "Cr" THEN <<13>> ELSE IF e = "Lf" THEN <<10>> ELSE <<13, 10>>

(***************************************************************************)
(* Properties of the codecs, checked under SpecCodec.                      *)
(***************************************************************************)

\* C1: round trip.  For every text s without a boundary byte, encoding s
\* under crlf into an empty buffer and decoding the bytes until decode
\* returns None yields exactly one Line, equal to s.
C1_RoundTrip ==
    (hMode = "encode" /\ eol = "Crlf" /\ hBuf0 = <<>> /\ ~HasLF(hLine)
       /\ hPc = "done")
    => hLines = <<hLine>>

\* C2: when decode finds the first boundary byte at offset n it removes
\* exactly bytes [0, n] from the accumulator, and the Line it returns is
\* bytes [0, n) less one carriage return directly before the boundary;
\* no other byte is removed.
C2_SplitAtBoundary ==
    (hCalls > 0 /\ hRet.ret = "Some")
    => LET p == position(hPrev)
       IN  /\ p # 0
           /\ hSrc = SubSeq(hPrev, p + 1, Len(hPrev))
           /\ hRet.line = without_carriage_return(SubSeq(hPrev, 1, p - 1))

\* C3: when the accumulator holds no boundary byte, decode returns None and
\* leaves the accumulator as it was, whatever bytes it holds.
C3_NoBoundaryNoChange ==
    (hCalls > 0 /\ ~HasLF(hPrev))
    => hRet.ret = "None" /\ hSrc = hPrev

C3_Witness ==
    /\ hCalls > 0 /\ ~HasLF(hPrev) /\ ~from_utf8(hPrev)
    /\ hRet.ret = "None" /\ hSrc = hPrev

\* C4: an accumulator holding k boundary bytes and valid text yields k
\* Lines, one per decode call and in stream order, then None; what is left
\* is the bytes after the last boundary.  A boundary byte at the start or
\* directly after another yields an empty Line.
C4_ValidText(s) == \A k \in 1..CountLF(s) : from_utf8(Chunk(s, k))

C4_OneLinePerBoundary ==
    (hMode = "decode" /\ C4_ValidText(hFed))
    => /\ hRet.ret # "Err"
       /\ hCalls = Len(hLines) + (IF hPc = "done" THEN 1 ELSE 0)
       /\ Len(hLines) <= CountLF(hFed)
       /\ \A k \in 1..Len(hLines) : IsPrefix(hLines[k], Chunk(hFed, k))
       /\ hSrc = AfterLF(hFed, Len(hLines))
       /\ hPc = "done" => Len(hLines) = CountLF(hFed)

C4_Witness ==
    /\ hMode = "decode" /\ C4_ValidText(hFed) /\ hPc = "done"
    /\ CountLF(hFed) >= 2 /\ hFed[1] = LF
    /\ Len(hLines) = CountLF(hFed) /\ hLines[1] = <<>>
    /\ hSrc # <<>>

\* C7: encode never fails and appends to the buffer the line's bytes and
\* the policy's terminator (cr: 0x0D, lf: 0x0A, crlf: 0x0D 0x0A), leaving
\* the bytes already in the buffer and the line as they were.
C7_TerminatorFidelity ==
    hEncRet # "Start"
    => hEncRet = "Ok" /\ hBuf = hBuf0 \o hLine \o Terminator(eol)

C7_Witness ==
    /\ hEncRet = "Ok" /\ eol = "Cr" /\ hBuf0 # <<>> /\ Len(hLine) >= 2
    /\ hBuf = hBuf0 \o hLine \o <<13>>


(***************************************************************************)
(* Properties of the session, checked under Spec.                          *)
(***************************************************************************)
\* the Lines decode yields when it is called, until it returns None or an
\* error, on the bytes s held in the accumulator as one chunk
RECURSIVE AllLines(_)
AllLines(s) ==
    LET r == decode(s)
    IN  IF r.ret = "Some" THEN <<r.line>> \o AllLines(r.src) ELSE <<>>

\* the bytes the console sink receives for a sequence of Lines
RECURSIVE ConsoleBytes(_)
ConsoleBytes(ls) ==
    IF ls = <<>> THEN <<>> ELSE Head(ls) \o <<10>> \o ConsoleBytes(Tail(ls))

\* the first chunk of s that is not valid text (0: every chunk is valid)
FirstBad(s) ==
    LET bad == {k \in 1..CountLF(s) : ~from_utf8(Chunk(s, k))}
    IN  IF bad = {} THEN 0 ELSE CHOOSE k \in bad : \A j \in bad : k <= j

\* a read of l's source returns in this step (bytes, or end-of-stream)
ReadReturns(l) == pos'[l] # pos[l] \/ eof'[l] # eof[l]

\* C5: chunking independence.  The Lines the device-side decoder has
\* emitted are those a single decode pass over the bytes read so far yields,
\* however the reads split them; bytes of an unfinished line are kept and
\* no Line is emitted for them.
C5_ChunkingIndependence ==
    LET s == stream["output"]
        sofar == SubSeq(s, 1, pos["output"])
    IN  /\ IsPrefix(decoded["output"], AllLines(s))
        /\ Len(decoded["output"]) <= CountLF(sofar)
        /\ (status["output"] = "Running" /\ ~readable["output"])
           => decoded["output"] = AllLines(sofar)

C5_Witness ==
    /\ stream["output"] = <<97, 97, 10>>
    /\ pos["output"] = 2 /\ acc["output"] = <<97, 97>>
    /\ ~readable["output"] /\ decoded["output"] = <<>>

\* C6: when a chunk up to a boundary byte is not valid text, decode returns
\* an error and no Line for it; the device-to-console loop and the session
\* end with that error, and no Line of that chunk or of later bytes reaches
\* the console.
C6_InvalidText ==
    LET s == stream["output"]
        b == FirstBad(s)
    IN  /\ status["output"] = "InvalidString"
           => /\ b # 0 /\ Len(decoded["output"]) = b - 1
              /\ session = [state |-> "Terminated", result |-> "InvalidString",
                            from |-> "output"]
        /\ b # 0
           => /\ Len(decoded["output"]) < b
              /\ IsPrefix(sink["output"], ConsoleBytes(decoded["output"]))
              /\ status["output"] \in
                    {"Running", "InvalidString", "ReadError", "WriteError"}
              /\ (status["output"] = "Running" /\ ~readable["output"])
                 => CountLF(SubSeq(s, 1, pos["output"])) < b

C6_Witness ==
    /\ FirstBad(stream["output"]) = 1 /\ CountLF(stream["output"]) >= 2
    /\ status["output"] = "InvalidString"
    /\ session.state = "Terminated" /\ session.result = "InvalidString"
    /\ decoded["output"] = <<>> /\ sink["output"] = <<>>

\* C8 as stated: the session is Terminated as soon as either loop has
\* completed, successfully or with an error.
C8_FirstCompletionEnds ==
    (\E l \in Loops : status[l] # "Running") => session.state = "Terminated"

\* C8 amended: the session is Terminated as soon as either loop has
\* completed with an error, or once both have completed successfully; after
\* the console-to-device loop alone has returned success the session goes on.
C8_FirstErrorOrBothDone ==
    session.state = "Terminated"
    <=> \/ \E l \in Loops : IsErr(status[l])
        \/ \A l \in Loops : status[l] = "Ok"

C8_Witness ==
    /\ status["input"] = "Ok" /\ status["output"] = "Running"
    /\ session.state = "Running"
    /\ sink["output"] # <<>>

\* C9: first failure.  When a loop returns an error the session is
\* Terminated in the same step with that error as its outcome, whether the
\* other loop has returned success or is still running; the outcome is not
\* changed afterwards and the other loop takes no further step (it is
\* neither awaited nor drained).
C9_FirstFailure ==
    [][/\ \A l \in Loops :
             IsErr(status'[l])
             => session' = [state |-> "Terminated", result |-> status'[l],
                            from |-> l]
       /\ session.state = "Terminated" => UNCHANGED pvars]_vars

C9_Witness ==
    /\ status["input"] = "Ok" /\ IsErr(status["output"])
    /\ session.state = "Terminated" /\ session.result = status["output"]

\* C10 as stated: no read is issued to the source while a decoded Line has
\* not been completely written to the sink.
C10_NoReadWhileUnwritten ==
    [][\A l \in Loops :
          ReadReturns(l) => item[l] = <<>> /\ wbuf[l] = <<>>]_vars

\* C10 amended: a loop holds at most one decoded Line that it has not yet
\* handed to the sink's encoder, and no read is issued to the source while
\* it holds one; Lines already encoded into the sink's write buffer may
\* still be unwritten when the next read is issued.
C10_OneItemBuffered ==
    [][\A l \in Loops :
          /\ Len(item'[l]) <= 1
          /\ ReadReturns(l) => item[l] = <<>>]_vars

C10_Witness ==
    /\ eof["output"] /\ status["output"] = "Running"
    /\ item["output"] = <<>> /\ wbuf["output"] # <<>>
    /\ decoded["output"] # <<>>

\* the bytes loop l's sink receives for a sequence of Lines: each Line and
\* the terminator of that side (the console's LF, the device's policy)
RECURSIVE SinkBytes(_, _)
SinkBytes(l, ls) ==
    IF ls = <<>> THEN <<>>
    ELSE Head(ls)
         \o (IF l = "output" THEN <<10>> ELSE Terminator(eol))
         \o SinkBytes(l, Tail(ls))

\* C11: FIFO within a direction.  In each loop, under every interleaving
\* of the two, what the sink has received is a prefix of the decoded Lines
\* in their order, each with its terminator: the bytes written, the bytes
\* buffered for writing and the Line held by the loop are together exactly
\* the decoded Lines, none duplicated, reordered or skipped.
C11_Fifo ==
    \A l \in Loops :
       /\ IsPrefix(sink[l], SinkBytes(l, decoded[l]))
       /\ sink[l] \o wbuf[l] \o SinkBytes(l, item[l]) = SinkBytes(l, decoded[l])

C11_Witness ==
    /\ decoded["input"] = <<<<>>, <<97>>>>
    /\ sink["input"] = <<13, 10, 97, 13, 10>>
    /\ Len(decoded["output"]) >= 2
    /\ decoded["output"][1] # decoded["output"][2]
    /\ sink["output"] = ConsoleBytes(decoded["output"])

(***************************************************************************)
(* Properties of the end of a stream, checked under SpecEof.               *)
(***************************************************************************)
\* the bytes of s after its last boundary byte
Trailing(s) == AfterLF(s, CountLF(s))

\* the Lines of a console stream of valid text that has closed: one per
\* boundary byte, and the leftover bytes unless they are nothing but a CR
ConsoleLines(s) ==
    [k \in 1..CountLF(s) |-> without_carriage_return(Chunk(s, k))]
    \o (IF Trailing(s) \in {<<>>, <<13>>} THEN <<>>
        ELSE <<without_carriage_return(Trailing(s))>>)

\* C12 as stated: when a source has closed with unterminated bytes in the
\* accumulator, in either direction, they are not handed on as a final Line
\* and they do not make the loop return an error.
C12_TrailingDroppedSilently ==
    \A l \in Loops :
       (eof[l] /\ Trailing(stream[l]) # <<>>)
       => /\ Len(decoded[l]) <= CountLF(stream[l])
          /\ status[l] # "BytesRemaining"

\* C12 amended: unterminated bytes the device leaves behind are never
\* written to the console as a Line, but the device-to-console loop cannot
\* return success: it returns the error "bytes remaining on stream", which
\* ends the session.  Unterminated bytes the console leaves behind (valid
\* text) are sent to the device as a final Line, less one trailing CR, with
\* the policy's terminator; only a lone CR is dropped silently.
C12_TrailingBytes ==
    /\ (eof["output"] /\ Trailing(stream["output"]) # <<>>)
       => /\ Len(decoded["output"]) <= CountLF(stream["output"])
          /\ status["output"] # "Ok"
    /\ status["output"] = "BytesRemaining"
       => /\ eof["output"] /\ acc["output"] = Trailing(stream["output"])
          /\ acc["output"] # <<>>
          /\ session = [state |-> "Terminated", result |-> "BytesRemaining",
                        from |-> "output"]
    /\ status["input"] = "Ok"
       => /\ decoded["input"] = ConsoleLines(stream["input"])
          /\ sink["input"] = SinkBytes("input", decoded["input"])

C12_Witness ==
    /\ Trailing(stream["input"]) = <<97>>
    /\ status["input"] = "Ok"
    /\ Len(decoded["input"]) = CountLF(stream["input"]) + 1
    /\ sink["input"] = SinkBytes("input", decoded["input"])
    /\ Trailing(stream["output"]) # <<>>
    /\ status["output"] = "BytesRemaining"

\* C15 as stated: a loop returns success only when its source has reported
\* end-of-stream and the decoder accumulator is empty.
C15_SuccessOnlyWhenEmpty ==
    \A l \in Loops : status[l] = "Ok" => eof[l] /\ acc[l] = <<>>

\* C15 amended: a loop returns success only when its source has reported
\* end-of-stream and the accumulator is empty or, on the console side,
\* holds nothing but a carriage return.  A loop that runs on has met no
\* invalid chunk, and once a loop has returned an error it makes no retry:
\* its result stays and nothing more is written to its sink.
C15_LoopResult ==
    [][\A l \in Loops :
          /\ status'[l] = "Ok"
             => /\ eof'[l] /\ pos'[l] = Len(stream'[l])
                /\ acc'[l] = <<>> \/ (l = "input" /\ acc'[l] = <<13>>)
          /\ (status'[l] = "Running" /\ ~readable'[l])
             => \A k \in 1..CountLF(SubSeq(stream'[l], 1, pos'[l])) :
                   from_utf8(Chunk(stream'[l], k))
          /\ IsErr(status[l])
             => status'[l] = status[l] /\ sink'[l] = sink[l]]_vars

C15_Witness ==
    /\ status["input"] = "Ok" /\ acc["input"] = <<13>>
    /\ status["output"] = "Ok" /\ acc["output"] = <<>>
    /\ decoded["output"] # <<>>

(***************************************************************************)
(* Properties of main's start-up, checked under SpecMain.                  *)
(***************************************************************************)
\* C13 as stated: with --list the program opens no device and starts no
\* pipeline, and when it exits it has printed the enumerated ports and its
\* status is 0, whatever the enumeration returned.
C13_ListExitsZero ==
    opt.list
    => /\ opened = "none" /\ mPc \notin {"settings", "opened", "forwarding"}
       /\ mPc = "exited" => exit = "0" /\ printed = ports.list

\* C14 as stated: with an explicit device path (and valid settings, no
\* --list) the program does not exit before it has handed that path to
\* Serial::from_path, whatever the enumeration returned.
C14_ExplicitPathOpened ==
    ( /\ opt.tty # "none" /\ ~opt.list
      /\ DataBitsExt_try_from(opt.data_bits) = "Ok"
      /\ StopBitsExt_try_from(opt.stop_bits) = "Ok"
      /\ mPc = "exited" )
    => opened = opt.tty

(***************************************************************************)
(* Properties of the Lines and the accumulator of SerialReadCodec.         *)
(***************************************************************************)
\* C16 as stated: every Line the device-side decoder emits contains neither
\* LF nor CR anywhere.
C16_NoTerminatorAnywhere ==
    hMode = "decode"
    => \A i \in 1..Len(hLines) :
          \A j \in 1..Len(hLines[i]) : hLines[i][j] \notin {LF, CR}

\* C16 amended: every Line the device-side decoder emits contains no LF
\* anywhere and does not end in CR or in any other white space; it is the
\* chunk up to where its trailing white space starts, so that a CR in the
\* middle of a line stays in the Line.
C16_NoTrailingTerminator ==
    hMode = "decode"
    => /\ \A i \in 1..Len(hLines) :
             ~HasLF(hLines[i]) /\ WhiteTail(hLines[i]) = 0
       /\ hRet.ret = "Some"
          => /\ IsPrefix(hRet.line, Chunk(hPrev, 1))
             /\ \A j \in 1..Len(hRet.line) :
                   hRet.line[j] = CR => hPrev[j] = CR

C16_Witness ==
    /\ hMode = "decode" /\ hPc = "done"
    /\ hFed = <<CR, 97, CR, LF>>
    /\ hLines = <<<<CR, 97>>>>

\* the bytes the device has delivered so far
Arrived == SubSeq(stream["output"], 1, pos["output"])
\* the boundary bytes the device-side decoder has extracted so far: one per
\* Line, and the one of the chunk it rejected
Extracted ==
    Len(decoded["output"])
    + (IF status["output"] = "InvalidString" THEN 1 ELSE 0)

\* C17: the accumulator of the device-side decoder holds exactly the bytes
\* that arrived after the most recently extracted boundary byte (all bytes
\* arrived when none was extracted), in arrival order; and when decode has
\* just asked for more data the accumulator holds no boundary byte.
C17_DecoderState ==
    /\ Extracted <= CountLF(Arrived)
    /\ acc["output"] = AfterLF(Arrived, Extracted)
    /\ (status["output"] = "Running" /\ ~readable["output"])
       => ~HasLF(acc["output"])

C17_Witness ==
    /\ stream["output"] = <<97, 10, 97>> /\ pos["output"] = 3
    /\ decoded["output"] = <<<<97>>>>
    /\ acc["output"] = <<97>>
    /\ status["output"] = "Running" /\ ~readable["output"]

\* C20: a DecodeError does not preserve the decoder state.  When decode
\* rejects the chunk that ends at the first boundary byte, that chunk and
\* its boundary byte have left the accumulator and the bytes after it remain;
\* decode calls that follow go on with the next chunks, so that a stream is
\* worked off in one call per boundary byte and a last call that finds none,
\* and every valid chunk after a rejected one still yields its Line.
C20_ErrorConsumesChunk ==
    hMode = "decode"
    => /\ hRet.ret = "Err"
          => /\ HasLF(hPrev)
             /\ ~from_utf8(Chunk(hPrev, 1))
             /\ hSrc = AfterLF(hPrev, 1)
             /\ Len(hSrc) < Len(hPrev)
       /\ hPc = "done"
          => /\ hCalls = CountLF(hFed) + 1
             /\ Len(hLines) = Cardinality({k \in 1..CountLF(hFed) :
                                             from_utf8(Chunk(hFed, k))})

C20_Witness ==
    /\ hMode = "decode" /\ hPc = "done"
    /\ hFed = <<133, LF, 97, LF>>
    /\ hLines = <<<<97>>>>
    /\ hCalls = 3

\* C19 as stated: after a decode call that found no boundary byte, the next
\* decode call scans only the bytes appended since, none of the bytes the
\* failed attempt has examined.
C19_ForwardProgressScan ==
    (hMode = "feed" /\ hScan.seen > 0) => hScan.from > hScan.seen

\* C19 amended: the decoder keeps no scan position.  After a decode call
\* that found no boundary byte, the next decode call scans the accumulator
\* from its first byte, so it examines every byte the failed attempt has
\* examined once more before it reaches the appended ones.
C19_ScanRestarts ==
    hMode = "feed"
    => /\ hScan.from = 1
       /\ hScan.seen > 0 => hScan.to > hScan.seen
       /\ hScan.to <= Len(hPrev)

C19_Witness ==
    /\ hMode = "feed"
    /\ hFed = <<97, 97, LF>> /\ hPrev = hFed
    /\ hScan = [from |-> 1, to |-> 3, seen |-> 2]
    /\ hLines = <<<<97, 97>>>>

(***************************************************************************)
(* Progress of the two loops, checked under SpecLive.                      *)
(***************************************************************************)
\* the complete lines l's source has delivered
Delivered(l) == CountLF(SubSeq(stream[l], 1, pos[l]))

\* C18: independent progress.  Whenever a source has delivered a complete
\* line that is not yet in the sink of its loop, every line delivered is
\* eventually in that sink, unless a loop fails; this holds for the device
\* lines in the behaviours in which the console never delivers a byte, and
\* for the console lines in those in which the device never does.
C18_IndependentProgress ==
    \A l \in Loops :
       (Delivered(l) > CountLF(sink[l]))
       ~> (CountLF(sink[l]) >= Delivered(l) \/ \E m \in Loops : IsErr(status[m]))

\* a device line is on the console while the console has delivered nothing
\* of what it holds and both loops run
C18_Witness ==
    /\ stream["input"] # <<>> /\ pos["input"] = 0
    /\ status["input"] = "Running" /\ status["output"] = "Running"
    /\ Delivered("output") >= 1
    /\ CountLF(sink["output"]) = Delivered("output")

====
